---- MODULE Spec2Model ----
(***************************************************************************)
(* Parallel segmented sieve benchmark (src/cpu.py).                        *)
(*                                                                         *)
(* Two specifications share this module:                                   *)
(*   SieveSpec  one worker process: its module-level base-prime cache and  *)
(*              calls of sieve_simple, init_worker and                     *)
(*              segmented_sieve_segment with inputs from bounded sets;     *)
(*   Spec       main(): the pool of worker processes, the pool's task      *)
(*              feeder pulling from segment_generator, the result channel  *)
(*              of imap_unordered and the coordinator loop with its        *)
(*              deadline, including KeyboardInterrupt and worker faults.   *)
(*   FairSpec   Spec for CHUNK >= 1, with weak fairness of the program's   *)
(*              own steps.                                                 *)
(*                                                                         *)
(* Leaving the with block (break, an exception, KeyboardInterrupt) runs    *)
(* Pool.terminate() as part of the same step of main().                    *)
(***************************************************************************)
EXTENDS Integers, Sequences, FiniteSets, Bags, TLC

VARIABLES
    globals,        \* process -> [base_primes, base_max]: _base_primes, _base_max
    call,           \* SieveSpec: the last call made and what it returned
    WORKERS,        \* configuration: number of pool processes
    CHUNK,          \* configuration: numbers per segment
    pc,             \* position of main()
    pool,           \* "none" | "run" | "terminated"
    gen,            \* segment_generator's frame: [k, idx]
    yielded,        \* history: the items segment_generator has yielded so far
    taskq,          \* the pool's task channel: segments dispatched, not yet taken
    busy,           \* process -> the segment it is computing, or NoSeg
    resultq,        \* the pool's result channel, in order of completion
    total_primes,
    total_segments,
    absorbed,       \* history: bag of the counts the loop has absorbed
    elapsed,        \* time.time() - start_time, in ticks
    cutoff,         \* history: the totals when the deadline check succeeded
    summary,        \* what the performance summary printed, or NoSummary
    aborted,        \* history: indices of segments whose computation was killed
    faulted         \* history: indices of segments whose computation raised

vars == <<globals, call, WORKERS, CHUNK, pc, pool, gen, yielded, taskq, busy,
          resultq, total_primes, total_segments, absorbed, elapsed, cutoff,
          summary, aborted, faulted>>

----------------------------------------------------------------------------
(* Bounds of the model *)

\* SieveSpec: largest n handed to sieve_simple
MaxN == 30
\* SieveSpec: largest high handed to segmented_sieve_segment
MaxHigh == 30
\* SieveSpec: largest initial bound handed to init_worker
MaxBase == 7
\* number of segments the task feeder pulls from the generator in Spec
MaxSegs == 4

\* Program constants, scaled down (src/cpu.py sets 100_000 and 120 seconds;
\* here one tick of the clock is the whole budget)
INITIAL_BASE == 2
DURATION_SECS == 1

WorkerChoices == {-1, 0, 1, 2}
ChunkChoices == {-1, 0, 1, 3}

----------------------------------------------------------------------------
(* Python primitives the sieve uses *)

Max(a, b) == IF a >= b THEN a ELSE b
Min(a, b) == IF a <= b THEN a ELSE b

\* math.isqrt(n) and int(n**0.5) for n >= 0: the floor of the square root
Isqrt(n) == CHOOSE r \in 0..n : r * r <= n /\ (r + 1) * (r + 1) > n

\* Python's // with a positive divisor: floor division, also of a negative a
FloorDiv(a, b) == IF a >= 0 THEN a \div b ELSE -((-a + b - 1) \div b)

\* Python's % with a positive divisor
PyMod(a, b) == a - b * FloorDiv(a, b)

\* bytearray(b'\x01') * n: n bytes of 1, none when n <= 0; index i is key i
ByteArray(n) == [arr |-> [i \in 0..(n - 1) |-> 1], raised |-> FALSE]

\* len(b'\x00' * count)
ZeroBytes(count) == IF count > 0 THEN count ELSE 0

\* the indices slice(start, stop, step).indices(len) selects, start >= 0, step > 0
SliceIndices(len, start, stop, step) ==
    LET lo == Min(start, len)
        hi == IF stop < 0 THEN Max(len + stop, 0) ELSE Min(stop, len)
    IN  {i \in lo..(hi - 1) : (i - lo) % step = 0}

\* s[start:stop:step] = b'\x00' * count, an extended slice: ValueError unless
\* the number of bytes equals the number of indices selected
SliceAssignZero(s, start, stop, step, count) ==
    LET len == Cardinality(DOMAIN s.arr)
        idx == SliceIndices(len, start, stop, step)
    IN  IF s.raised THEN s
        ELSE IF Cardinality(idx) # ZeroBytes(count)
             THEN [arr |-> s.arr, raised |-> TRUE]
             ELSE [arr |-> [i \in DOMAIN s.arr |-> IF i \in idx THEN 0 ELSE s.arr[i]],
                   raised |-> FALSE]

\* a Python name bound to a value: e is evaluated once and F reads the result
Bind(e, F(_)) == CHOOSE r \in {F(v) : v \in {e}} : TRUE

\* [i for i, isprime in enumerate(sieve) if isprime], from index i on
RECURSIVE Enumerate(_, _, _)
Enumerate(arr, i, len) ==
    IF i >= len THEN <<>>
    ELSE IF arr[i] # 0 THEN <<i>> \o Enumerate(arr, i + 1, len)
         ELSE Enumerate(arr, i + 1, len)

\* sum(sieve)
RECURSIVE SumBytes(_, _, _)
SumBytes(arr, i, len) ==
    IF i >= len THEN 0 ELSE arr[i] + SumBytes(arr, i + 1, len)

----------------------------------------------------------------------------
(* sieve_simple *)

\* where the marking of the multiples of p starts
SieveMarkStart_skipsSquare(p) == p * p + p
SieveMarkStart(p) == p * p

\* for p in range(p, limit + 1): if sieve[p]: sieve[p*p:n+1:p] = zeros
RECURSIVE SieveLoop(_, _, _, _)
SieveLoop(s, p, limit, n) ==
    IF p > limit \/ s.raised THEN s
    ELSE Bind(IF s.arr[p] # 0
              THEN SliceAssignZero(s, SieveMarkStart(p), n + 1, p,
                                   FloorDiv(n - SieveMarkStart(p), p) + 1)
              ELSE s,
              LAMBDA t : SieveLoop(t, p + 1, limit, n))

\* the list comprehension over the sieve the loop leaves
SieveResult(s, n) ==
    [raised |-> s.raised,
     value |-> IF s.raised THEN <<>> ELSE Enumerate(s.arr, 0, n + 1)]

\* returns [raised, value]: value is the list returned unless an exception left
sieve_simple(n) ==
    IF n < 2 THEN [raised |-> FALSE, value |-> <<>>]
    ELSE Bind([arr |-> [i \in 0..n |-> IF i < 2 THEN 0 ELSE ByteArray(n + 1).arr[i]],
               raised |-> FALSE],
              LAMBDA s1 : Bind(SieveLoop(s1, 2, Isqrt(n), n),
                               LAMBDA s2 : SieveResult(s2, n)))

----------------------------------------------------------------------------
(* the worker's base-prime cache *)

\* module level: _base_primes = [], _base_max = 0
EmptyCache == [base_primes |-> <<>>, base_max |-> 0]

init_worker(initial_base) ==
    [base_primes |-> sieve_simple(initial_base).value, base_max |-> initial_base]

ensure_base_primes_reversed(g, limit) ==
    IF limit < g.base_max
    THEN [base_primes |-> sieve_simple(limit).value, base_max |-> limit]
    ELSE g
ensure_base_primes(g, limit) ==
    IF limit > g.base_max
    THEN [base_primes |-> sieve_simple(limit).value, base_max |-> limit]
    ELSE g

----------------------------------------------------------------------------
(* segmented_sieve_segment *)

\* index of the first multiple of p to mark in a segment starting at low
SegMarkStart(low, p) ==
    LET start == PyMod(-(low % p) + p, p)
        first == low + start
    IN  IF first = p THEN start + p ELSE start

\* for p in base: sieve[start:size:p] = zeros
RECURSIVE SegLoop(_, _, _, _, _)
SegLoop(s, base, j, low, size) ==
    IF j > Len(base) \/ s.raised THEN s
    ELSE LET p == base[j]
             start == SegMarkStart(low, p)
         IN  Bind(SliceAssignZero(s, start, size, p,
                                  FloorDiv(size - 1 - start, p) + 1),
                  LAMBDA t : SegLoop(t, base, j + 1, low, size))

\* return sum(sieve), with the globals the call leaves behind
SegResult(s, g1) ==
    [raised |-> s.raised,
     value |-> IF s.raised THEN 0
               ELSE SumBytes(s.arr, 0, Cardinality(DOMAIN s.arr)),
     globals |-> g1]

\* lines 44 to 53, for the globals g1 that ensure_base_primes left
SegSieve(low, high, limit, g1) ==
    Bind(SelectSeq(g1.base_primes, LAMBDA p : p <= limit),
         LAMBDA base :
            Bind(SegLoop(ByteArray(high - low), base, 1, low, high - low),
                 LAMBDA s : SegResult(s, g1)))

\* returns [raised, value, globals]: the count, or raised when an exception
\* left the call, and the process's cache after the call
segmented_sieve_segment(args, g) ==
    LET low == IF args[1] < 2 THEN 2 ELSE args[1]
        high == args[2]
    IN  IF high < 0     \* math.isqrt raises ValueError
        THEN [raised |-> TRUE, value |-> 0, globals |-> g]
        ELSE Bind(ensure_base_primes(g, Isqrt(high) + 1),
                  LAMBDA g1 : SegSieve(low, high, Isqrt(high) + 1, g1))

----------------------------------------------------------------------------
(* segment_generator *)

\* the frame after idx = 0, before the first iteration
GenStart == [k |-> 0, idx |-> 0]

\* the item the frame yields next: (low, high, idx)
GenItem_overlap(g, start, chunk) ==
    <<start + g.k * chunk, start + g.k * chunk + chunk + 1, g.idx>>
GenItem(g, start, chunk) ==
    LET low == start + g.k * chunk
        high == low + chunk
    IN  <<low, high, g.idx>>

\* the frame after the yield: idx += 1 and the next k of count(0)
GenStep(g) == [k |-> g.k + 1, idx |-> g.idx + 1]

----------------------------------------------------------------------------
(* State shared by both specifications *)

NoSeg == <<>>
NoSummary == [printed |-> FALSE, primes |-> 0]
NoCutoff == [seen |-> FALSE, primes |-> 0, segments |-> 0, dispatched |-> 0]
NoCall == [fn |-> "none", args |-> <<>>, before |-> EmptyCache,
           raised |-> FALSE, list |-> <<>>, count |-> 0]

Quiet ==
    /\ WORKERS = 1
    /\ CHUNK = 1
    /\ pc = "idle"
    /\ pool = "none"
    /\ gen = GenStart
    /\ yielded = <<>>
    /\ taskq = <<>>
    /\ busy = [w \in {1} |-> NoSeg]
    /\ resultq = <<>>
    /\ total_primes = 0
    /\ total_segments = 0
    /\ absorbed = EmptyBag
    /\ elapsed = 0
    /\ cutoff = NoCutoff
    /\ summary = NoSummary
    /\ aborted = {}
    /\ faulted = {}

mainVars == <<WORKERS, CHUNK, pc, pool, gen, yielded, taskq, busy, resultq,
              total_primes, total_segments, absorbed, elapsed, cutoff, summary,
              aborted, faulted>>

----------------------------------------------------------------------------
(* SieveSpec: one process, the sieve functions called with bounded inputs *)

SieveInit ==
    /\ globals = [w \in {1} |-> EmptyCache]
    /\ call = NoCall
    /\ Quiet

\* the pool's initializer, run once when the process starts
CallInitWorker ==
    \E b \in 0..MaxBase :
        /\ call.fn = "none"
        /\ globals' = [globals EXCEPT ![1] = init_worker(b)]
        /\ call' = [NoCall EXCEPT !.fn = "init_worker", !.args = <<b>>,
                                  !.before = globals[1]]
        /\ UNCHANGED mainVars

\* the process is between two calls
Idle == call.fn \in {"none", "returned"}

CallSieve ==
    \E n \in 0..MaxN :
        LET r == sieve_simple(n)
        IN  /\ Idle
            /\ call' = [NoCall EXCEPT !.fn = "sieve_simple", !.args = <<n>>,
                                      !.before = globals[1],
                                      !.raised = r.raised, !.list = r.value]
            /\ UNCHANGED <<globals, mainVars>>

CallSegment ==
    \E high \in 0..MaxHigh : \E low \in 0..high :
        LET r == segmented_sieve_segment(<<low, high, 0>>, globals[1])
        IN  /\ Idle
            /\ globals' = [globals EXCEPT ![1] = r.globals]
            /\ call' = [NoCall EXCEPT !.fn = "segmented_sieve_segment",
                                      !.args = <<low, high>>,
                                      !.before = globals[1],
                                      !.raised = r.raised, !.count = r.value]
            /\ UNCHANGED mainVars

\* the call's result has been handed back; the globals stay as the call left them
Return ==
    /\ ~Idle
    /\ call' = [NoCall EXCEPT !.fn = "returned"]
    /\ UNCHANGED <<globals, mainVars>>

SieveNext == CallInitWorker \/ CallSieve \/ CallSegment \/ Return

SieveSpec == SieveInit /\ [][SieveNext]_vars

----------------------------------------------------------------------------
(* Spec: main() with its pool *)

Init ==
    /\ WORKERS \in WorkerChoices
    /\ CHUNK \in ChunkChoices
    /\ pc = "start"
    /\ pool = "none"
    /\ globals = [w \in {} |-> EmptyCache]
    /\ busy = [w \in {} |-> NoSeg]
    /\ call = NoCall
    /\ gen = GenStart
    /\ yielded = <<>>
    /\ taskq = <<>>
    /\ resultq = <<>>
    /\ total_primes = 0
    /\ total_segments = 0
    /\ absorbed = EmptyBag
    /\ elapsed = 0
    /\ cutoff = NoCutoff
    /\ summary = NoSummary
    /\ aborted = {}
    /\ faulted = {}

Procs == DOMAIN busy

\* the segments in flight: Pool.terminate() kills the processes computing them
InFlight == {busy[w][3] : w \in {v \in Procs : busy[v] # NoSeg}}

\* Pool(processes=WORKERS, ...) raises ValueError for WORKERS < 1, which
\* main() does not catch
PoolRejected ==
    /\ pc = "start"
    /\ WORKERS < 1
    /\ pc' = "failed"
    /\ UNCHANGED <<globals, call, WORKERS, CHUNK, pool, gen, yielded, taskq, busy,
                   resultq, total_primes, total_segments, absorbed, elapsed,
                   cutoff, summary, aborted, faulted>>

\* the pool starts WORKERS processes, each running init_worker(INITIAL_BASE),
\* and main() enters the loop over imap_unordered
PoolStart ==
    /\ pc = "start"
    /\ WORKERS >= 1
    /\ pool' = "run"
    /\ globals' = [w \in 1..WORKERS |-> init_worker(INITIAL_BASE)]
    /\ busy' = [w \in 1..WORKERS |-> NoSeg]
    /\ pc' = "loop"
    /\ UNCHANGED <<call, WORKERS, CHUNK, gen, yielded, taskq, resultq,
                   total_primes, total_segments, absorbed, elapsed, cutoff,
                   summary, aborted, faulted>>

\* the pool's task feeder pulls the next segment from seg_iter and puts it on
\* the task channel, without waiting for earlier segments to complete
Dispatch ==
    /\ pool = "run"
    /\ gen.k < MaxSegs
    /\ LET item == GenItem(gen, 2, CHUNK)
       IN  /\ yielded' = Append(yielded, item)
           /\ taskq' = Append(taskq, item)
    /\ gen' = GenStep(gen)
    /\ UNCHANGED <<globals, call, WORKERS, CHUNK, pc, pool, busy, resultq,
                   total_primes, total_segments, absorbed, elapsed, cutoff,
                   summary, aborted, faulted>>

\* an idle process takes the oldest task (chunksize=1: one segment)
Take(w) ==
    /\ pool = "run"
    /\ busy[w] = NoSeg
    /\ taskq # <<>>
    /\ busy' = [busy EXCEPT ![w] = Head(taskq)]
    /\ taskq' = Tail(taskq)
    /\ UNCHANGED <<globals, call, WORKERS, CHUNK, pc, pool, gen, yielded,
                   resultq, total_primes, total_segments, absorbed, elapsed,
                   cutoff, summary, aborted, faulted>>

\* the process runs segmented_sieve_segment to its end and sends the outcome:
\* (True, count), or (False, exception) when the call raised
Complete(w) ==
    /\ pool = "run"
    /\ busy[w] # NoSeg
    /\ \E r \in {segmented_sieve_segment(busy[w], globals[w])} :
           /\ globals' = [globals EXCEPT ![w] = r.globals]
           /\ resultq' = Append(resultq, [ok |-> ~r.raised, value |-> r.value,
                                          idx |-> busy[w][3]])
           /\ faulted' = IF r.raised THEN faulted \cup {busy[w][3]} ELSE faulted
    /\ busy' = [busy EXCEPT ![w] = NoSeg]
    /\ UNCHANGED <<call, WORKERS, CHUNK, pc, pool, gen, yielded, taskq,
                   total_primes, total_segments, absorbed, elapsed, cutoff,
                   summary, aborted>>

\* the computation raises for lack of memory when it allocates the segment's
\* bytearray, after the cache has been brought up to the segment's limit
Fault(w) ==
    /\ pool = "run"
    /\ busy[w] # NoSeg
    /\ busy[w][2] >= 0
    /\ globals' = [globals EXCEPT
                     ![w] = ensure_base_primes(globals[w], Isqrt(busy[w][2]) + 1)]
    /\ resultq' = Append(resultq, [ok |-> FALSE, value |-> 0, idx |-> busy[w][3]])
    /\ faulted' = faulted \cup {busy[w][3]}
    /\ busy' = [busy EXCEPT ![w] = NoSeg]
    /\ UNCHANGED <<call, WORKERS, CHUNK, pc, pool, gen, yielded, taskq,
                   total_primes, total_segments, absorbed, elapsed, cutoff,
                   summary, aborted>>

\* time passes while the loop runs
Tick ==
    /\ pc = "loop"
    /\ elapsed < DURATION_SECS
    /\ elapsed' = elapsed + 1
    /\ UNCHANGED <<globals, call, WORKERS, CHUNK, pc, pool, gen, yielded, taskq,
                   busy, resultq, total_primes, total_segments, absorbed, cutoff,
                   summary, aborted, faulted>>

\* total_primes += count_primes
AddCount_overwrite(total, count_primes) == count_primes
AddCount(total, count_primes) == total + count_primes

\* elapsed >= DURATION_SECS
DeadlineReached(e) == e >= DURATION_SECS

\* leaving the with block: Pool.__exit__ calls terminate(), which stops the
\* feeder and kills the processes, whatever they are computing
Terminate ==
    /\ pool' = "terminated"
    /\ aborted' = aborted \cup InFlight

\* the loop body for a result that arrives before the deadline
AbsorbContinue ==
    /\ pc = "loop"
    /\ resultq # <<>>
    /\ Head(resultq).ok
    /\ ~DeadlineReached(elapsed)
    /\ total_primes' = AddCount(total_primes, Head(resultq).value)
    /\ total_segments' = total_segments + 1
    /\ absorbed' = absorbed (+) SetToBag({Head(resultq).value})
    /\ resultq' = Tail(resultq)
    /\ UNCHANGED <<globals, call, WORKERS, CHUNK, pc, pool, gen, yielded, taskq,
                   busy, elapsed, cutoff, summary, aborted, faulted>>

\* the loop body for the result after which the deadline check succeeds:
\* the result is added, then break leaves the loop and the with block
AbsorbCutoff_noBreak ==
    /\ pc = "loop"
    /\ resultq # <<>>
    /\ Head(resultq).ok
    /\ DeadlineReached(elapsed)
    /\ total_primes' = AddCount(total_primes, Head(resultq).value)
    /\ total_segments' = total_segments + 1
    /\ absorbed' = absorbed (+) SetToBag({Head(resultq).value})
    /\ resultq' = Tail(resultq)
    /\ UNCHANGED <<globals, call, WORKERS, CHUNK, pc, pool, gen, yielded, taskq,
                   busy, elapsed, cutoff, summary, aborted, faulted>>
AbsorbCutoff_checkFirst ==
    /\ pc = "loop"
    /\ resultq # <<>>
    /\ Head(resultq).ok
    /\ DeadlineReached(elapsed)
    /\ resultq' = Tail(resultq)
    /\ cutoff' = [seen |-> TRUE, primes |-> total_primes,
                  segments |-> total_segments, dispatched |-> Len(yielded)]
    /\ Terminate
    /\ pc' = "report"
    /\ UNCHANGED <<globals, call, WORKERS, CHUNK, gen, yielded, taskq, busy,
                   total_primes, total_segments, absorbed, elapsed, summary,
                   faulted>>
AbsorbCutoff ==
    /\ pc = "loop"
    /\ resultq # <<>>
    /\ Head(resultq).ok
    /\ DeadlineReached(elapsed)
    /\ total_primes' = AddCount(total_primes, Head(resultq).value)
    /\ total_segments' = total_segments + 1
    /\ absorbed' = absorbed (+) SetToBag({Head(resultq).value})
    /\ resultq' = Tail(resultq)
    /\ cutoff' = [seen |-> TRUE, primes |-> total_primes',
                  segments |-> total_segments', dispatched |-> Len(yielded)]
    /\ Terminate
    /\ pc' = "report"
    /\ UNCHANGED <<globals, call, WORKERS, CHUNK, gen, yielded, taskq, busy,
                   elapsed, summary, faulted>>

\* the iterator re-raises the exception of a failed segment in main(); it
\* leaves the with block and, not being a KeyboardInterrupt, main() itself
AbsorbFault ==
    /\ pc = "loop"
    /\ resultq # <<>>
    /\ ~Head(resultq).ok
    /\ resultq' = Tail(resultq)
    /\ Terminate
    /\ pc' = "failed"
    /\ UNCHANGED <<globals, call, WORKERS, CHUNK, gen, yielded, taskq, busy,
                   total_primes, total_segments, absorbed, elapsed, cutoff,
                   summary, faulted>>

\* after the with block: the performance summary is printed
Report ==
    /\ pc = "report"
    /\ summary' = [printed |-> TRUE, primes |-> total_primes]
    /\ pc' = "done"
    /\ UNCHANGED <<globals, call, WORKERS, CHUNK, pool, gen, yielded, taskq, busy,
                   resultq, total_primes, total_segments, absorbed, elapsed,
                   cutoff, aborted, faulted>>

\* KeyboardInterrupt anywhere inside the try block: the with block is left if
\* it was entered, and the handler prints "# Interrupted by user." only
Interrupt ==
    /\ pc \in {"start", "loop", "report"}
    /\ pc' = "interrupted"
    /\ IF pool = "run" THEN Terminate ELSE UNCHANGED <<pool, aborted>>
    /\ UNCHANGED <<globals, call, WORKERS, CHUNK, gen, yielded, taskq, busy,
                   resultq, total_primes, total_segments, absorbed, elapsed,
                   cutoff, summary, faulted>>

Next ==
    \/ PoolRejected
    \/ PoolStart
    \/ Dispatch
    \/ \E w \in Procs : Take(w)
    \/ \E w \in Procs : Complete(w)
    \/ \E w \in Procs : Fault(w)
    \/ Tick
    \/ AbsorbContinue
    \/ AbsorbCutoff
    \/ AbsorbFault
    \/ Report
    \/ Interrupt

Spec == Init /\ [][Next]_vars

\* the steps of the pool's processes, its feeder, the clock and main()
Progress ==
    \/ PoolRejected
    \/ PoolStart
    \/ Dispatch
    \/ \E w \in Procs : Take(w)
    \/ \E w \in Procs : Complete(w)
    \/ Tick
    \/ AbsorbContinue
    \/ AbsorbCutoff
    \/ AbsorbFault
    \/ Report

\* the program does not stop while one of its threads or processes can take a
\* step; nothing obliges a KeyboardInterrupt or a fault to happen
Fairness == WF_vars(Progress)

\* the runs C3 is about: a workload that grows without end (CHUNK >= 1)
FairInit == Init /\ CHUNK >= 1

FairSpec == FairInit /\ [][Next]_vars /\ Fairness

----------------------------------------------------------------------------
(* What the sieve functions are meant to compute *)

IsPrime(n) == n >= 2 /\ \A d \in 2..(n - 1) : n % d # 0

PrimesIn(lo, hi) == {p \in lo..(hi - 1) : IsPrime(p)}

StrictlyIncreasing(s) == \A i \in 1..(Len(s) - 1) : s[i] < s[i + 1]

Range(s) == {s[i] : i \in DOMAIN s}

\* C1: every call segmented_sieve_segment((low, high, idx)) with
\* 0 <= low <= high returns, without raising, the number of primes p with
\* max(low, 2) <= p < high, whatever the cache held before the call.
C1_SegmentCountExact ==
    call.fn = "segmented_sieve_segment" =>
        /\ ~call.raised
        /\ call.count = Cardinality(PrimesIn(Max(call.args[1], 2), call.args[2]))

\* a call on a cache larger than the call needs, over a segment that holds
\* base primes and their multiples
C1_Witness ==
    /\ call.fn = "segmented_sieve_segment"
    /\ call.args = <<3, 30>>
    /\ call.before.base_max = MaxBase
    /\ call.count = 9

\* C4: sieve_simple(n) returns, without raising, a strictly increasing list
\* whose elements are exactly the primes p with 2 <= p <= n; it is empty for
\* n < 2, and sieve_simple(30) = [2,3,5,7,11,13,17,19,23,29].
C4_SieveSimpleExact ==
    call.fn = "sieve_simple" =>
        LET n == call.args[1]
        IN  /\ ~call.raised
            /\ StrictlyIncreasing(call.list)
            /\ Range(call.list) = PrimesIn(2, n + 1)
            /\ (n < 2 => call.list = <<>>)
            /\ (n = 30 => call.list = <<2, 3, 5, 7, 11, 13, 17, 19, 23, 29>>)

C4_Witness ==
    /\ call.fn = "sieve_simple"
    /\ call.args = <<30>>
    /\ Len(call.list) = 10

----------------------------------------------------------------------------
(* Claims about main() *)

RECURSIVE BagSumOver(_, _)
BagSumOver(B, D) ==
    IF D = {} THEN 0
    ELSE LET c == CHOOSE x \in D : TRUE
         IN  c * B[c] + BagSumOver(B, D \ {c})

BagSum(B) == BagSumOver(B, DOMAIN B)

\* the integers a yielded item covers
Covered(item) == item[1]..(item[2] - 1)

\* the segments taken by a process so far: the channel is first in, first out
Started == SubSeq(yielded, 1, Len(yielded) - Len(taskq))

\* the largest high among items, 2 when there is none
RECURSIVE MaxHighOf(_, _)
MaxHighOf(items, i) ==
    IF i > Len(items) THEN 2 ELSE Max(items[i][2], MaxHighOf(items, i + 1))

\* number of segments of width CHUNK needed to cover [2, high)
SegmentsToCover(high) == (high - 2 + CHUNK - 1) \div CHUNK

\* main() ended through the deadline cutoff and printed its summary
EndedByDeadline == pc = "done"

\* C2: a KeyboardInterrupt after some results have been absorbed ends the
\* run with the totals accumulated so far reported.
C2_InterruptReportsTotals ==
    (pc = "interrupted" /\ total_segments >= 1) =>
        (summary.printed /\ summary.primes = total_primes)

\* C3 as stated: a run that ends by the deadline cutoff has absorbed strictly
\* fewer segments than are needed to cover [2, largest high dispatched).
C3_StrictlyFewerThanDispatched ==
    (EndedByDeadline /\ CHUNK >= 1) =>
        total_segments < SegmentsToCover(MaxHighOf(yielded, 1))

\* C3 as amended: a run that ends by the deadline cutoff has absorbed at most
\* as many segments as are needed to cover [2, largest high taken by a
\* process); and once the deadline has passed while the generator has a
\* segment left to hand out, the loop is left.
C3_AtMostStarted ==
    /\ [](  (EndedByDeadline /\ CHUNK >= 1) =>
              total_segments <= SegmentsToCover(MaxHighOf(Started, 1)))
    /\ ((pc = "loop" /\ elapsed >= DURATION_SECS /\ gen.k < MaxSegs)
            ~> (pc # "loop"))

\* a run ended by the deadline with every segment that was dispatched absorbed
C3_Witness ==
    /\ EndedByDeadline
    /\ CHUNK >= 1
    /\ total_segments >= 2
    /\ total_segments = SegmentsToCover(MaxHighOf(yielded, 1))

\* C5: the k-th item of segment_generator(2, CHUNK) is
\* (2 + k*CHUNK, 2 + (k+1)*CHUNK, k); for CHUNK >= 1 the items yielded so far
\* are pairwise disjoint and cover [2, 2 + n*CHUNK) exactly.
C5_GeneratorSequence ==
    LET n == Len(yielded)
    IN  /\ \A i \in 1..n :
               yielded[i] = <<2 + (i - 1) * CHUNK, 2 + i * CHUNK, i - 1>>
        /\ \A i \in 2..n : yielded[i][1] = yielded[i - 1][2]
        /\ CHUNK >= 1 =>
              /\ \A i, j \in 1..n :
                     i # j => Covered(yielded[i]) \cap Covered(yielded[j]) = {}
              /\ UNION {Covered(yielded[i]) : i \in 1..n}
                     = 2..(2 + n * CHUNK - 1)

C5_Witness ==
    /\ CHUNK = 3
    /\ Len(yielded) = MaxSegs
    /\ yielded[3] = <<8, 11, 2>>

\* C6: after a segment's computation has raised, the run does not abort: it
\* goes on to the deadline and reports its totals.
C6_FaultDoesNotAbort ==
    (faulted # {} /\ WORKERS >= 1 /\ CHUNK >= 1) => pc # "failed"

\* C7: with WORKERS <= 0 or CHUNK <= 0 the pool is never started and no
\* segment is dispatched.
C7_InvalidConfigRejected ==
    (WORKERS <= 0 \/ CHUNK <= 0) =>
        /\ pool = "none"
        /\ yielded = <<>>
        /\ pc \in {"start", "failed", "interrupted"}

\* C8: total_segments is the number of results absorbed and total_primes the
\* sum of their counts, whatever the order they arrived in, and neither
\* total ever decreases.
C8_TotalsAreBagSums ==
    /\ [](total_segments = BagCardinality(absorbed)
           /\ total_primes = BagSum(absorbed))
    /\ [][total_segments' >= total_segments /\ total_primes' >= total_primes]_vars

\* two later segments absorbed while the first segment's result still waits
C8_Witness ==
    /\ CHUNK = 3
    /\ total_segments = 2
    /\ total_primes = 2
    /\ \E i \in DOMAIN resultq : resultq[i].ok /\ resultq[i].idx = 0

C10_NoSegmentPreempted ==
    pc \in {"report", "done"} => aborted = {}

====
